---- MODULE Spec2Model ----
(***************************************************************************)
(* Model of the retrieval core of the quiz generator: RAGEngine            *)
(* (rag_engine.py) and its use by the request handler (app.py).            *)
(*                                                                         *)
(* Texts are sequences of one-character strings, so that len(), strip()    *)
(* and split() are computed as Python computes them.                       *)
(***************************************************************************)
EXTENDS Integers, Sequences, FiniteSets, TLC

VARIABLES
    \* ---- one call of chunk_text (SpecChunk) ----
    text,            \* argument text
    min_chunk_size,  \* argument min_chunk_size
    paragraphs,      \* local paragraphs (line 29)
    pidx,            \* number of paragraphs already processed by the for loop
    cchunks,         \* local chunks (lines 32-57)
    cpc,             \* position in chunk_text: "split", "loop", "filter", "done"
    \* ---- one RAGEngine used sequentially (Spec, SpecFaulty) ----
    chunks,          \* self.chunks
    embeddings,      \* self.embeddings
    ret,             \* the last call on the engine and what it gave back
    prev,            \* the last retrieve that returned, as its caller kept it
    tie_break,       \* how this build of numpy orders equal scores in argsort
    \* ---- requests served at once on the one engine of app.py (SpecConc) ----
    notes,           \* per request: the notes posted
    topic,           \* per request: the topic posted
    pc,              \* per request: the line it is about to run
    lchunks,         \* per request: chunks (app.py line 261)
    lsims,           \* per request: similarities (rag_engine.py line 99)
    ltop,            \* per request: top_indices (rag_engine.py line 103)
    result           \* per request: context_chunks (app.py line 265)

\* ------------------------------------------------------------------ bounds

\* longest input of chunk_text, in paragraphs
MaxParas == 3
\* longest chunk list handed to build_index
MaxChunks == 3
\* largest k handed to retrieve
MaxK == 4
\* requests served at once
NumRequests == 2

\* ---------------------------------------------------- program constants

\* rag_engine.py:17  default of min_chunk_size
DefaultMinChunkSize == 50
\* rag_engine.py:36  a short paragraph is merged while the last chunk is shorter
MergeLimit == 200
\* rag_engine.py:40  a paragraph longer than this is split by sentences
LongParagraph == 500
\* rag_engine.py:45  cap of the sentence buffer
BufferCap == 300
\* app.py:24  default of TOP_K_CHUNKS
TopKChunks == 3

\* ------------------------------------------------------------ Python str

Rep(c, n) == [i \in 1..n |-> c]

IsSpace(c) == c \in {" ", "\n"}

\* str.strip()
Strip(s) ==
    IF \A i \in 1..Len(s) : IsSpace(s[i]) THEN <<>>
    ELSE LET first == CHOOSE i \in 1..Len(s) :
                          /\ ~IsSpace(s[i])
                          /\ \A j \in 1..(i-1) : IsSpace(s[j])
             last  == CHOOSE i \in 1..Len(s) :
                          /\ ~IsSpace(s[i])
                          /\ \A j \in (i+1)..Len(s) : IsSpace(s[j])
         IN SubSeq(s, first, last)

\* the elements of a finite set of integers, ascending
Ascending(S) ==
    [j \in 1..Cardinality(S) |->
        CHOOSE p \in S : Cardinality({x \in S : x < p}) = j - 1]

\* the pieces of s between separators of width w that start at the positions M
PiecesAt(s, M, w) ==
    LET m == Ascending(M)
        n == Len(m)
    IN [j \in 1..(n+1) |->
          SubSeq(s, IF j = 1 THEN 1 ELSE m[j-1] + w,
                    IF j = n + 1 THEN Len(s) ELSE m[j] - 1)]

\* the number of newlines right before position i
NewlinesBefore(s, i) ==
    CHOOSE r \in 0..(i-1) :
        /\ \A d \in 1..r : s[i-d] = "\n"
        /\ (r = i - 1 \/ s[i-r-1] # "\n")

\* str.split('\n\n'): separators are matched left to right, without overlap
SplitBlankLines(s) ==
    LET M == {i \in 1..(Len(s)-1) :
                 /\ s[i] = "\n"
                 /\ s[i+1] = "\n"
                 /\ NewlinesBefore(s, i) % 2 = 0}
    IN PiecesAt(s, M, 2)

\* str.split('.')
SplitDots(s) == PiecesAt(s, {i \in 1..Len(s) : s[i] = "."}, 1)

NonBlank(s) == Strip(s) # <<>>

StripAll(ss) == [i \in 1..Len(ss) |-> Strip(ss[i])]

\* ------------------------------------------------------------ chunk_text

\* line 29
Paragraphs(t) == StripAll(SelectSeq(SplitBlankLines(t), NonBlank))

\* line 42
Sentences(para) ==
    LET kept == StripAll(SelectSeq(SplitDots(para), NonBlank))
    IN [i \in 1..Len(kept) |-> kept[i] \o <<".">>]

\* lines 44-50: the loop over the sentences from sentence i on;
\* gives the buffer and the chunk list it ends with
RECURSIVE SentenceLoop(_, _, _, _)
SentenceLoop(sents, i, current_chunk, cs) ==
    IF i > Len(sents) THEN [current_chunk |-> current_chunk, chunks |-> cs]
    ELSE IF Len(current_chunk) + Len(sents[i]) < BufferCap
         THEN SentenceLoop(sents, i + 1, current_chunk \o <<" ">> \o sents[i], cs)
         ELSE SentenceLoop(sents, i + 1, sents[i],
                  IF current_chunk # <<>>
                  THEN Append(cs, Strip(current_chunk)) ELSE cs)

\* lines 40-52 left out: the long paragraph is appended as line 54 does
SplitLongWhole(cs, para) == Append(cs, para)

\* lines 40-52: a long paragraph
SplitLong(cs, para) ==
    LET r == SentenceLoop(Sentences(para), 1, <<>>, cs)
    IN IF r.current_chunk # <<>>
       THEN Append(r.chunks, Strip(r.current_chunk)) ELSE r.chunks

\* line 37 with the index of the first chunk in place of chunks[-1]
MergeShortIntoFirst(cs, para) ==
    IF cs # <<>> /\ Len(cs[Len(cs)]) < MergeLimit
    THEN [cs EXCEPT ![1] = @ \o <<" ">> \o para]
    ELSE Append(cs, para)

\* line 36 without its test of the length of the last chunk
MergeShortUnlimited(cs, para) ==
    IF cs # <<>>
    THEN [cs EXCEPT ![Len(cs)] = @ \o <<" ">> \o para]
    ELSE Append(cs, para)

\* lines 34-39: a short paragraph
MergeShort(cs, para) ==
    IF cs # <<>> /\ Len(cs[Len(cs)]) < MergeLimit
    THEN [cs EXCEPT ![Len(cs)] = @ \o <<" ">> \o para]
    ELSE Append(cs, para)

\* lines 34-54: one iteration of the loop over the paragraphs
ChunkParagraph(cs, para, m) ==
    IF Len(para) < m THEN MergeShort(cs, para)
    ELSE IF Len(para) > LongParagraph THEN SplitLong(cs, para)
    ELSE Append(cs, para)

LongEnough(c, m) == Len(c) >= m

\* line 57 left out: the chunk list is returned as the loop built it
FilterSmallSkipped(cs, m) == cs

\* line 57
FilterSmall(cs, m) ==
    LET Keep(c) == LongEnough(c, m) IN SelectSeq(cs, Keep)

\* lines 33-54: the loop over the paragraphs from paragraph i on
RECURSIVE ParagraphLoop(_, _, _, _)
ParagraphLoop(ps, i, cs, m) ==
    IF i > Len(ps) THEN cs
    ELSE ParagraphLoop(ps, i + 1, ChunkParagraph(cs, ps[i], m), m)

\* chunk_text as a function
ChunkText(t, m) == FilterSmall(ParagraphLoop(Paragraphs(t), 1, <<>>, m), m)

\* ------------------------------------------------- embedding collaborator

\* SentenceTransformer.encode is deterministic and gives vectors of one fixed
\* dimension.  Here component i tells whether the text holds Features[i], and
\* a text holding "c" is pulled the opposite way.
Features == <<"a", "b">>

Has(t, c) == IF \E i \in 1..Len(t) : t[i] = c THEN 1 ELSE 0

\* model.encode(text) for one text
Embed(t) == [i \in 1..Len(Features) |-> Has(t, Features[i]) - Has(t, "c")]

\* model.encode(list) for a list of texts: one row per text, in order
EncodeMany(cs) == [i \in 1..Len(cs) |-> Embed(cs[i])]

\* ------------------------------------------------------------ numpy arrays

\* self.embeddings is None (line 14), np.array([]) (line 70: one dimension,
\* no element) or the matrix encode returned (line 74: one row per chunk)
NoEmbeddings == [none |-> TRUE, ndim |-> 0, rows |-> <<>>]

EmptyArray == [none |-> FALSE, ndim |-> 1, rows |-> <<>>]

Matrix(rows) == [none |-> FALSE, ndim |-> 2, rows |-> rows]

RECURSIVE DotFrom(_, _, _)
DotFrom(u, v, i) == IF i > Len(u) THEN 0 ELSE u[i] * v[i] + DotFrom(u, v, i + 1)

\* np.dot of two vectors
Dot(u, v) == DotFrom(u, v, 1)

Sgn(x) == IF x > 0 THEN 1 ELSE IF x < 0 THEN -1 ELSE 0

\* line 117 for one row: dot / (norm1 * norm2 + 1e-10).  The score is kept as
\* the fraction num/den = sgn(dot) * dot^2 / (|vec1|^2 * |row|^2), which orders
\* rows as the cosine does; a zero vector gives 0 / 1e-10 = 0.
Score(vec1, row) ==
    LET d  == Dot(row, vec1)
        nn == Dot(vec1, vec1) * Dot(row, row)
    IN [num |-> Sgn(d) * d * d, den |-> IF nn = 0 THEN 1 ELSE nn]

ScoreLess(s, t) == s.num * t.den < t.num * s.den

ScoreEq(s, t) == s.num * t.den = t.num * s.den

ScoreGeq(s, t) == ~ScoreLess(s, t)

\* lines 108-117: one score per row of the matrix
CosineSimilarity(vec1, vec2) == [i \in 1..Len(vec2.rows) |-> Score(vec1, vec2.rows[i])]

\* np.argsort with its default kind, which is not a stable sort: the order of
\* equal scores is left to the build of numpy.  Its insertion sort of short
\* arrays lists the lower position first ("first"); a build that sorts by
\* another method may list the higher position first ("last").  The order is
\* the same in every call of one process.
TieBreaks == {"first", "last"}

\* np.argsort: positions in ascending order of score
ArgSort(sims) ==
    [r \in 1..Len(sims) |->
        CHOOSE i \in 1..Len(sims) :
            Cardinality({j \in 1..Len(sims) :
                \/ ScoreLess(sims[j], sims[i])
                \/ /\ ScoreEq(sims[j], sims[i])
                   /\ IF tie_break = "first" THEN j < i ELSE j > i}) = r - 1]

\* a[:k] in place of a[-k:]: the head of the sorted positions, not the tail
SliceHead(a, start) ==
    LET n == Len(a)
        k == -start
    IN SubSeq(a, 1, IF k > n THEN n ELSE IF k < 0 THEN 0 ELSE k)

\* a[start:] with Python's rule for a negative start
SliceFrom(a, start) ==
    LET n  == Len(a)
        s0 == IF start < 0
              THEN (IF n + start < 0 THEN 0 ELSE n + start)
              ELSE (IF start > n THEN n ELSE start)
    IN SubSeq(a, s0 + 1, n)

\* a[::-1]
Reversed(a) == [i \in 1..Len(a) |-> a[Len(a) + 1 - i]]

\* ---------------------------------------------------------------- RAGEngine

\* an incremental build: the new chunks are added to the stored ones
StoredChunksAppended(old, cs) == old \o cs

\* line 68
StoredChunks(old, cs) == cs

\* lines 69-71 returning without line 70: an empty build keeps the old vectors
StoredEmbeddingsKept(old, cs) ==
    IF cs = <<>> THEN old ELSE Matrix(EncodeMany(cs))

\* lines 69-78, when encode returns
StoredEmbeddings(old, cs) ==
    IF cs = <<>> THEN EmptyArray ELSE Matrix(EncodeMany(cs))

\* line 92 left out: retrieve goes on to encode the query on any index
IndexEmptyUnchecked(cs, emb) == FALSE

\* line 92
IndexEmpty(cs, emb) == cs = <<>> \/ emb.none \/ Len(emb.rows) = 0

\* line 102
ClampK(k, cs) == IF k < Len(cs) THEN k ELSE Len(cs)

\* line 103 without [::-1]: the chosen rows stay in ascending order
TopIndicesAscending(sims, k) == SliceFrom(ArgSort(sims), -k)

\* line 103: positions (from 1) of the chosen rows, best first
TopIndices(sims, k) == Reversed(SliceFrom(ArgSort(sims), -k))

NoCall ==
    [op |-> "none", outcome |-> "none", error |-> "", arg |-> <<>>,
     query |-> <<>>, k |-> 0, value |-> <<>>, top |-> <<>>, encoded |-> 0,
     nvec |-> 0, replaced |-> FALSE, num_chunks |-> 0, embedding_dim |-> 0]

\* lines 81-106, as the record of the call
RetrieveCall(query, k, cs, emb) ==
    LET call == [NoCall EXCEPT !.op = "retrieve", !.query = query, !.k = k]
    IN IF IndexEmpty(cs, emb)
       THEN [call EXCEPT !.outcome = "returned"]
       ELSE IF emb.none
       THEN [call EXCEPT !.outcome = "raised", !.error = "AttributeError",
                         !.encoded = 1]
       ELSE IF emb.ndim # 2
       THEN [call EXCEPT !.outcome = "raised", !.error = "ValueError",
                         !.encoded = 1]
       ELSE LET sims == CosineSimilarity(Embed(query), emb)
                top  == TopIndices(sims, ClampK(k, cs))
            IN IF \E i \in 1..Len(top) : top[i] > Len(cs)
               THEN [call EXCEPT !.outcome = "raised", !.error = "IndexError",
                                 !.encoded = 1, !.top = top]
               ELSE [call EXCEPT !.outcome = "returned", !.encoded = 1, !.top = top,
                                 !.value = [i \in 1..Len(top) |-> cs[top[i]]]]

\* lines 119-125, as the record of the call
GetStatsCall(cs, emb) ==
    LET call == [NoCall EXCEPT !.op = "get_stats"]
    IN IF emb.none
       THEN [call EXCEPT !.outcome = "returned", !.num_chunks = Len(cs)]
       ELSE IF emb.ndim < 2
       THEN [call EXCEPT !.outcome = "raised", !.error = "IndexError"]
       ELSE [call EXCEPT !.outcome = "returned", !.num_chunks = Len(cs),
                         !.embedding_dim = Len(emb.rows[1])]

\* ------------------------------------------------------------------ inputs

Sentence(c, n) == Rep(c, n) \o <<".">>

\* the paragraphs the texts are made of: blank, shorter than every threshold,
\* between the thresholds, at the merge limit, and longer than 500 characters
\* with sentences that fill the buffer, overflow it, or leave a short rest
ParaPalette ==
    { <<" ", " ">>,
      <<"a", ".">>,
      <<" ">> \o Rep("b", 60) \o <<"\n">>,
      Rep("c", 210),
      Sentence("a", 119) \o <<" ">> \o Sentence("a", 119) \o <<" ">>
          \o Sentence("a", 119) \o <<" ">> \o Sentence("a", 119) \o <<" ">>
          \o Sentence("a", 119),
      Sentence("b", 299) \o <<" ">> \o Sentence("b", 298) \o <<" ", "b", ".">>,
      Sentence("c", 510) }

RECURSIVE JoinParas(_, _)
JoinParas(ps, i) ==
    IF i > Len(ps) THEN <<>>
    ELSE IF i = Len(ps) THEN ps[i]
    ELSE ps[i] \o <<"\n", "\n">> \o JoinParas(ps, i + 1)

SeqsUpTo(S, n) == UNION {[1..m -> S] : m \in 0..n}

\* notes of three paragraphs, the first and the last of two characters:
\* "A.", "B is about photosynthesis and chloroplasts." and "C."
ExampleParagraph ==
    <<"B", " ", "i", "s", " ", "a", "b", "o", "u", "t", " ", "p", "h", "o",
      "t", "o", "s", "y", "n", "t", "h", "e", "s", "i", "s", " ", "a", "n",
      "d", " ", "c", "h", "l", "o", "r", "o", "p", "l", "a", "s", "t", "s",
      ".">>

ExampleNotes ==
    <<"A", ".", "\n", "\n">> \o ExampleParagraph \o <<"\n", "\n", "C", ".">>

ExampleChunk == ExampleParagraph \o <<" ", "C", ".">>

ExampleQuery ==
    <<"c", "h", "l", "o", "r", "o", "p", "l", "a", "s", "t", "s">>

Texts ==
    {JoinParas(ps, 1) : ps \in SeqsUpTo(ParaPalette, MaxParas)}
        \cup {ExampleNotes}

MinSizes == {0, 5, DefaultMinChunkSize, 250}

\* the chunk lists handed to build_index, the queries and the k of retrieve
ChunkPalette == {<<"a">>, <<"a", "b">>, <<"c">>}

ChunkLists == SeqsUpTo(ChunkPalette, MaxChunks)

Queries == {<<"a">>, <<"b">>, <<>>}

KValues == (-2)..MaxK

\* ------------------------------------------------------------------- state

vars == <<text, min_chunk_size, paragraphs, pidx, cchunks, cpc,
          chunks, embeddings, ret, prev, tie_break,
          notes, topic, pc, lchunks, lsims, ltop, result>>

reqVars == <<notes, topic, pc, lchunks, lsims, ltop, result>>

chunkVars == <<text, min_chunk_size, paragraphs, pidx, cchunks, cpc>>

engineVars == <<chunks, embeddings, ret, prev, tie_break>>

\* lines 13-14: the engine after __init__
EngineInit ==
    /\ chunks = <<>>
    /\ embeddings = NoEmbeddings
    /\ ret = NoCall
    /\ prev = NoCall

ChunkIdle ==
    /\ text = <<>>
    /\ min_chunk_size = DefaultMinChunkSize
    /\ paragraphs = <<>>
    /\ pidx = 0
    /\ cchunks = <<>>
    /\ cpc = "idle"

Requests == 1..NumRequests

\* no request is being served
NoRequests ==
    /\ notes = [r \in Requests |-> <<>>]
    /\ topic = [r \in Requests |-> <<>>]
    /\ pc = [r \in Requests |-> "idle"]
    /\ lchunks = [r \in Requests |-> <<>>]
    /\ lsims = [r \in Requests |-> <<>>]
    /\ ltop = [r \in Requests |-> <<>>]
    /\ result = [r \in Requests |-> <<>>]

\* ------------------------------------------------- chunk_text, step by step

InitChunk ==
    /\ text \in Texts
    /\ min_chunk_size \in MinSizes
    /\ paragraphs = <<>>
    /\ pidx = 0
    /\ cchunks = <<>>
    /\ cpc = "split"
    /\ EngineInit
    /\ tie_break = "first"
    /\ NoRequests

\* line 29
ChunkSplit ==
    /\ cpc = "split"
    /\ paragraphs' = Paragraphs(text)
    /\ cpc' = "loop"
    /\ UNCHANGED <<text, min_chunk_size, pidx, cchunks, engineVars, reqVars>>

\* lines 33-54: one paragraph
ChunkLoop ==
    /\ cpc = "loop"
    /\ pidx < Len(paragraphs)
    /\ cchunks' = ChunkParagraph(cchunks, paragraphs[pidx + 1], min_chunk_size)
    /\ pidx' = pidx + 1
    /\ UNCHANGED <<text, min_chunk_size, paragraphs, cpc, engineVars, reqVars>>

\* lines 57-59
ChunkReturn ==
    /\ cpc = "loop"
    /\ pidx = Len(paragraphs)
    /\ cchunks' = FilterSmall(cchunks, min_chunk_size)
    /\ cpc' = "done"
    /\ UNCHANGED <<text, min_chunk_size, paragraphs, pidx, engineVars, reqVars>>

NextChunk == ChunkSplit \/ ChunkLoop \/ ChunkReturn

SpecChunk == InitChunk /\ [][NextChunk]_vars

\* ------------------------------------------- the engine, one call at a time

Init == ChunkIdle /\ EngineInit /\ tie_break \in TieBreaks /\ NoRequests

\* the engine is used by one caller, which makes its next call once the
\* previous one has returned or raised (app.py lines 331-333)
Idle == ret.op = "none"

\* the caller takes what the call gave back and goes on
CallerResumes ==
    /\ ~Idle
    /\ ret' = NoCall
    /\ UNCHANGED <<prev, tie_break, chunks, embeddings, chunkVars, reqVars>>

\* lines 61-79, encode returning
BuildIndex(cs) ==
    /\ Idle
    /\ chunks' = StoredChunks(chunks, cs)
    /\ embeddings' = StoredEmbeddings(embeddings, cs)
    /\ ret' = [NoCall EXCEPT !.op = "build_index", !.outcome = "returned",
                  !.arg = cs,
                  !.encoded = IF cs = <<>> THEN 0 ELSE 1,
                  !.nvec = Len(cs),
                  !.replaced = \E i \in 1..Len(chunks) :
                                   \A j \in 1..Len(cs) : cs[j] # chunks[i]]
    /\ UNCHANGED <<prev, tie_break, chunkVars, reqVars>>

\* lines 61-74, encode raising: line 68 has already run
BuildIndexEncodeFails(cs) ==
    /\ Idle
    /\ cs # <<>>
    /\ chunks' = StoredChunks(chunks, cs)
    /\ ret' = [NoCall EXCEPT !.op = "build_index", !.outcome = "raised",
                  !.error = "EmbeddingError", !.arg = cs, !.encoded = 1]
    /\ UNCHANGED <<prev, tie_break, embeddings, chunkVars, reqVars>>

\* a retrieve that keeps the chunks in the order it ranked them
RetrieveReordering(query, k) ==
    /\ Idle
    /\ ret' = RetrieveCall(query, k, chunks, embeddings)
    /\ chunks' = IF ret'.outcome = "returned" /\ Len(ret'.value) = Len(chunks)
                     THEN ret'.value
                     ELSE chunks
    /\ UNCHANGED <<prev, tie_break, embeddings, chunkVars, reqVars>>

\* lines 81-106, encode returning
Retrieve(query, k) ==
    /\ Idle
    /\ ret' = RetrieveCall(query, k, chunks, embeddings)
    /\ UNCHANGED <<prev, tie_break, chunks, embeddings, chunkVars, reqVars>>

\* a retrieve that catches the collaborator's error and gives back no chunks
RetrieveFallback(query, k) ==
    [NoCall EXCEPT !.op = "retrieve", !.outcome = "returned",
                   !.error = "EmbeddingError", !.query = query,
                   !.encoded = 1]

\* line 96 when encode raises: nothing in retrieve catches the error, so the
\* call ends there and the error reaches the caller.  k is first read on
\* line 102, which is not reached.
RetrieveRaised(query, k) ==
    [NoCall EXCEPT !.op = "retrieve", !.outcome = "raised",
                   !.error = "EmbeddingError", !.query = query,
                   !.encoded = 1]

\* lines 81-96, encode raising
RetrieveEncodeFails(query, k) ==
    /\ Idle
    /\ ~IndexEmpty(chunks, embeddings)
    /\ ret' = RetrieveRaised(query, k)
    /\ UNCHANGED <<prev, tie_break, chunks, embeddings, chunkVars, reqVars>>

\* lines 119-125
GetStats ==
    /\ Idle
    /\ ret' = GetStatsCall(chunks, embeddings)
    /\ UNCHANGED <<prev, tie_break, chunks, embeddings, chunkVars, reqVars>>

Next ==
    \/ \E cs \in ChunkLists : BuildIndex(cs)
    \/ \E cs \in ChunkLists : BuildIndexEncodeFails(cs)
    \/ \E q \in Queries, k \in KValues : Retrieve(q, k)
    \/ \E q \in Queries, k \in KValues : RetrieveEncodeFails(q, k)
    \/ GetStats
    \/ CallerResumes

Spec == Init /\ [][Next]_vars

\* ------------------------------ a collaborator that miscounts its vectors

\* lines 61-79 when encode gives back n rows for the chunk list cs
BuildIndexMiscounted(cs, n) ==
    /\ Idle
    /\ cs # <<>>
    /\ n # Len(cs)
    /\ n >= 1
    /\ chunks' = StoredChunks(chunks, cs)
    /\ embeddings' = Matrix([i \in 1..n |-> Embed(cs[((i - 1) % Len(cs)) + 1])])
    /\ ret' = [NoCall EXCEPT !.op = "build_index", !.outcome = "returned",
                  !.arg = cs, !.encoded = 1, !.nvec = n]
    /\ UNCHANGED <<prev, tie_break, chunkVars, reqVars>>

NextFaulty ==
    \/ Next
    \/ \E cs \in ChunkLists : \E n \in {Len(cs) - 1, Len(cs) + 1} :
           BuildIndexMiscounted(cs, n)

SpecFaulty == Init /\ [][NextFaulty]_vars

\* ------------------------------------- a caller that repeats its queries

\* app.py lines 333 and 265 run again on the index as it stands: the caller
\* holds on to the chunks one retrieve returned while it makes the next
CallerKeeps ==
    /\ ret.op = "retrieve"
    /\ ret.outcome = "returned"
    /\ prev' = ret
    /\ ret' = NoCall
    /\ UNCHANGED <<tie_break, chunks, embeddings, chunkVars, reqVars>>

\* the corpus is built, and from the first retrieve kept it is built no more
NextRepeat ==
    \/ prev = NoCall /\ \E cs \in ChunkLists : BuildIndex(cs)
    \/ \E q \in Queries, k \in KValues : Retrieve(q, k)
    \/ \E q \in Queries, k \in KValues : RetrieveEncodeFails(q, k)
    \/ CallerKeeps
    \/ CallerResumes

SpecRepeat == Init /\ [][NextRepeat]_vars

\* ------------------------------------ requests served at once (app.py)

\* the notes posted: one paragraph, two paragraphs, and notes too short to
\* give a chunk
NotesPalette ==
    { Rep("a", 60),
      Rep("b", 55) \o <<"\n", "\n">> \o Rep("c", 70),
      <<"a", ".">> }

\* app.py line 264: the query used when no topic is posted
DefaultQuery ==
    <<"g", "e", "n", "e", "r", "a", "t", "e", " ", "q", "u", "i", "z", " ",
      "q", "u", "e", "s", "t", "i", "o", "n", "s", " ", "f", "r", "o", "m",
      " ", "n", "o", "t", "e", "s">>

\* app.py line 264
QueryOf(t) == IF t # <<>> THEN t ELSE DefaultQuery

\* app.py line 15: one engine for the process; the requests have not started
InitConc ==
    /\ ChunkIdle
    /\ EngineInit
    /\ tie_break \in TieBreaks
    /\ notes \in [Requests -> NotesPalette]
    /\ topic \in [Requests -> {<<>>, <<"b">>}]
    /\ pc = [r \in Requests |-> "261"]
    /\ lchunks = [r \in Requests |-> <<>>]
    /\ lsims = [r \in Requests |-> <<>>]
    /\ ltop = [r \in Requests |-> <<>>]
    /\ result = [r \in Requests |-> <<>>]

\* app.py line 261
ReqChunkText(r) ==
    /\ pc[r] = "261"
    /\ lchunks' = [lchunks EXCEPT ![r] = ChunkText(notes[r], DefaultMinChunkSize)]
    /\ pc' = [pc EXCEPT ![r] = "68"]
    /\ UNCHANGED <<chunkVars, engineVars, notes, topic, lsims, ltop, result>>

\* app.py line 262, rag_engine.py line 68
ReqStoreChunks(r) ==
    /\ pc[r] = "68"
    /\ chunks' = StoredChunks(chunks, lchunks[r])
    /\ pc' = [pc EXCEPT ![r] = "69"]
    /\ UNCHANGED <<prev, tie_break, chunkVars, embeddings, ret, notes, topic, lchunks, lsims,
                   ltop, result>>

\* rag_engine.py lines 69-78
ReqStoreEmbeddings(r) ==
    /\ pc[r] = "69"
    /\ embeddings' = StoredEmbeddings(embeddings, lchunks[r])
    /\ pc' = [pc EXCEPT ![r] = "92"]
    /\ UNCHANGED <<prev, tie_break, chunkVars, chunks, ret, notes, topic, lchunks, lsims,
                   ltop, result>>

\* app.py line 265, rag_engine.py lines 92-93
ReqCheckEmpty(r) ==
    /\ pc[r] = "92"
    /\ pc' = [pc EXCEPT ![r] = IF IndexEmpty(chunks, embeddings)
                                 THEN "returned" ELSE "96"]
    /\ UNCHANGED <<chunkVars, engineVars, notes, topic, lchunks, lsims, ltop,
                   result>>

\* rag_engine.py lines 96-99: np.dot raises on np.array([])
ReqSimilarities(r) ==
    /\ pc[r] = "96"
    /\ IF embeddings.ndim # 2
       THEN /\ pc' = [pc EXCEPT ![r] = "raised"]
            /\ UNCHANGED lsims
       ELSE /\ lsims' = [lsims EXCEPT ![r] =
                            CosineSimilarity(Embed(QueryOf(topic[r])), embeddings)]
            /\ pc' = [pc EXCEPT ![r] = "102"]
    /\ UNCHANGED <<chunkVars, engineVars, notes, topic, lchunks, ltop, result>>

\* rag_engine.py lines 102-103
ReqTopIndices(r) ==
    /\ pc[r] = "102"
    /\ ltop' = [ltop EXCEPT ![r] = TopIndices(lsims[r], ClampK(TopKChunks, chunks))]
    /\ pc' = [pc EXCEPT ![r] = "106"]
    /\ UNCHANGED <<chunkVars, engineVars, notes, topic, lchunks, lsims, result>>

\* rag_engine.py line 106: a position past the end of self.chunks raises
ReqCollect(r) ==
    /\ pc[r] = "106"
    /\ IF \E i \in 1..Len(ltop[r]) : ltop[r][i] > Len(chunks)
       THEN /\ pc' = [pc EXCEPT ![r] = "raised"]
            /\ UNCHANGED result
       ELSE /\ result' = [result EXCEPT ![r] =
                             [i \in 1..Len(ltop[r]) |-> chunks[ltop[r][i]]]]
            /\ pc' = [pc EXCEPT ![r] = "returned"]
    /\ UNCHANGED <<chunkVars, engineVars, notes, topic, lchunks, lsims, ltop>>

NextConc ==
    \/ \E r \in Requests : ReqChunkText(r)
    \/ \E r \in Requests : ReqStoreChunks(r)
    \/ \E r \in Requests : ReqStoreEmbeddings(r)
    \/ \E r \in Requests : ReqCheckEmpty(r)
    \/ \E r \in Requests : ReqSimilarities(r)
    \/ \E r \in Requests : ReqTopIndices(r)
    \/ \E r \in Requests : ReqCollect(r)

SpecConc == InitConc /\ [][NextConc]_vars

\* ===================================================================== claims

Range(f) == {f[i] : i \in DOMAIN f}

Min(a, b) == IF a < b THEN a ELSE b

Max(a, b) == IF a > b THEN a ELSE b

Returned(op) == ret.op = op /\ ret.outcome = "returned"

\* the index holds what one build_index call that returned has stored
Built == ~embeddings.none /\ embeddings.rows = EncodeMany(chunks)

\* the scores retrieve computed in the call ret records
RetSims == CosineSimilarity(Embed(ret.query), embeddings)

\* C1: when chunk_text returns, every chunk of the list has at least
\* min_chunk_size characters, and a text of white space alone gives no chunk.
C1_ChunkSizeInvariant ==
    cpc = "done" =>
        /\ \A i \in 1..Len(cchunks) : Len(cchunks[i]) >= min_chunk_size
        /\ (Strip(text) = <<>> => cchunks = <<>>)

\* chunk_text has returned some chunks after the filter dropped others
C1_Witness ==
    /\ cpc = "done"
    /\ cchunks # <<>>
    /\ min_chunk_size > 0
    /\ Len(cchunks) < Len(ParagraphLoop(paragraphs, 1, <<>>, min_chunk_size))

\* C2: on a built corpus of N chunks, retrieve(q, k) returns exactly
\* min(k, N) chunks, for every integer k (no chunk when k is negative, a list
\* having no negative length).
C2_TopKCardinality ==
    (Returned("retrieve") /\ Built) =>
        Len(ret.value) = Max(0, Min(ret.k, Len(chunks)))

\* C3: every chunk a request gets back from retrieve is a chunk of the notes
\* of that request.
C3_NoCrossRequestLeak ==
    \A r \in Requests :
        pc[r] = "returned" =>
            Range(result[r]) \subseteq
                Range(ChunkText(notes[r], DefaultMinChunkSize))

\* a request is inside retrieve
Reading(r) == pc[r] \in {"92", "96", "102", "106"}

\* C4: while a request is inside retrieve, the stored chunks and the stored
\* vectors are those of one build.
C4_NoPartialBuild ==
    (\E r \in Requests : Reading(r)) => Built

\* C5: when build_index(chunks) returns, there are as many stored vectors as
\* chunks and vector i is the embedding of chunk i; an empty list never
\* raises and leaves an empty corpus and no vector.
C5_BuildAlignment ==
    /\ Returned("build_index") =>
           /\ ~embeddings.none
           /\ Len(embeddings.rows) = Len(ret.arg)
           /\ \A i \in 1..Len(ret.arg) : embeddings.rows[i] = Embed(ret.arg[i])
    /\ (ret.op = "build_index" /\ ret.arg = <<>>) =>
           /\ ret.outcome = "returned"
           /\ chunks = <<>>
           /\ embeddings.rows = <<>>

\* build_index returned for an empty list on an index that held chunks
C5_Witness ==
    /\ Returned("build_index")
    /\ ret.arg = <<>>
    /\ ret.replaced

\* C6: a build in which the collaborator gives a number of vectors other
\* than the number of chunks ends in an error.
C6_MiscountIsFatal ==
    (ret.op = "build_index" /\ ret.encoded = 1 /\ ret.outcome = "returned") =>
        ret.nvec = Len(ret.arg)

\* C7: the chunks retrieve returns are those at the positions it chose, and
\* the scores of these positions never increase along the result.
C7_ScoreMonotone ==
    Returned("retrieve") =>
        /\ Len(ret.value) = Len(ret.top)
        /\ \A i \in 1..Len(ret.top) : ret.value[i] = chunks[ret.top[i]]
        /\ \A i \in 1..(Len(ret.top) - 1) :
               ScoreGeq(RetSims[ret.top[i]], RetSims[ret.top[i + 1]])

\* retrieve returned every chunk of a built corpus, in an order that is not
\* the corpus order, with a strictly better score first
C7_Witness ==
    /\ Returned("retrieve")
    /\ Built
    /\ Len(ret.top) = MaxChunks
    /\ ret.top[1] > ret.top[2]
    /\ ScoreLess(RetSims[ret.top[2]], RetSims[ret.top[1]])

\* C8: no position is returned twice, and every returned position scores at
\* least as high as every scored position that is not returned.
C8_TopKSelection ==
    Returned("retrieve") =>
        LET sims == RetSims
        IN /\ \A i, j \in 1..Len(ret.top) : ret.top[i] = ret.top[j] => i = j
           /\ \A i \in Range(ret.top) :
                  \A j \in (1..Len(sims)) \ Range(ret.top) :
                      ScoreGeq(sims[i], sims[j])

\* retrieve returned a later chunk of a built corpus and left out an earlier
\* one that scores strictly lower
C8_Witness ==
    /\ Returned("retrieve")
    /\ Built
    /\ ret.k >= 1
    /\ ret.top # <<>>
    /\ \E j \in (1..Len(chunks)) \ Range(ret.top) :
           /\ j < ret.top[1]
           /\ ScoreLess(RetSims[j], RetSims[ret.top[1]])

\* C9: on an empty corpus retrieve returns the empty list, for every query
\* and k, and does not call the embedding collaborator (so it cannot raise).
C9_EmptyCorpus ==
    (ret.op = "retrieve" /\ chunks = <<>>) =>
        /\ ret.outcome = "returned"
        /\ ret.value = <<>>
        /\ ret.encoded = 0

\* retrieve was called with a positive k on an index built from an empty list
C9_Witness ==
    /\ ret.op = "retrieve"
    /\ chunks = <<>>
    /\ ~embeddings.none
    /\ ret.k > 0
    /\ ret.query # <<>>

\* C10: a build_index(c2) that returns leaves exactly c2 and the embeddings
\* of c2 in the index, whatever it held before, so that no chunk of the
\* earlier corpus that is not in c2 remains; and retrieve on a built index
\* returns stored chunks only.
C10_BuildReplaces ==
    /\ [][(ret'.op = "build_index" /\ ret'.outcome = "returned") =>
             /\ chunks' = ret'.arg
             /\ embeddings'.rows = EncodeMany(ret'.arg)
             /\ \A i \in 1..Len(chunks) :
                    chunks[i] \notin Range(ret'.arg) =>
                        chunks[i] \notin Range(chunks')]_vars
    /\ []((Returned("retrieve") /\ Built) => Range(ret.value) \subseteq Range(chunks))

\* build_index returned for a non-empty list on an index that held a chunk
\* the new list does not hold
C10_Witness ==
    /\ Returned("build_index")
    /\ ret.arg # <<>>
    /\ ret.replaced
    /\ Built

\* C11: when the collaborator raises while the query is embedded on an index
\* that is not empty, retrieve ends by raising that error: it returns nothing,
\* no chunk and no ranking is given in place of a result, and the call leaves
\* the stored chunks and the stored vectors as they were.
C11_EncodeErrorPropagates ==
    [][(ret'.op = "retrieve" /\ ret'.error = "EmbeddingError" /\ Idle)
          => /\ ret'.outcome = "raised"
             /\ ret'.value = <<>>
             /\ ret'.top = <<>>
             /\ chunks' = chunks
             /\ embeddings' = embeddings]_vars

C11_Witness ==
    /\ ret.op = "retrieve"
    /\ ret.outcome = "raised"
    /\ ret.error = "EmbeddingError"
    /\ Built
    /\ Len(chunks) >= 2

\* the chunk list as the loop of chunk_text has it on reaching paragraph p
Before(p) == ParagraphLoop(SubSeq(paragraphs, 1, p - 1), 1, <<>>, min_chunk_size)

\* the loop of chunk_text takes its next paragraph in this step
LoopStep == cpc = "loop" /\ cpc' = "loop" /\ pidx' = pidx + 1

\* C12 as stated: a chunk that is in the output list keeps its content while
\* the later paragraphs are processed.
C12_EmittedChunksFrozen ==
    [][LoopStep =>
          \A i \in 1..Len(cchunks) :
              i <= Len(cchunks') /\ cchunks'[i] = cchunks[i]]_vars

\* C12 amended: while the later paragraphs are processed no chunk leaves the
\* output list and every chunk but the last one keeps its content; the last
\* one either keeps it or, being shorter than 200 characters, gets a space and
\* a paragraph shorter than min_chunk_size added at its end.
C12_OnlyLastChunkGrows ==
    [][LoopStep =>
          LET n == Len(cchunks)
              para == paragraphs[pidx + 1]
          IN /\ Len(cchunks') >= n
             /\ \A i \in 1..(n - 1) : cchunks'[i] = cchunks[i]
             /\ n >= 1 =>
                    \/ cchunks'[n] = cchunks[n]
                    \/ /\ Len(para) < min_chunk_size
                       /\ Len(cchunks[n]) < MergeLimit
                       /\ Len(cchunks') = n
                       /\ cchunks'[n] = cchunks[n] \o <<" ">> \o para]_vars

\* the paragraph just processed was added to the last of two or more chunks
C12_Witness ==
    /\ cpc = "loop"
    /\ pidx >= 2
    /\ Len(Before(pidx)) >= 2
    /\ Len(cchunks) = Len(Before(pidx))
    /\ cchunks[Len(cchunks)] # Before(pidx)[Len(cchunks)]

\* C13: a retrieve that returns on a corpus not built again since an earlier
\* retrieve with the same query and the same k returned gives the same
\* positions and the same chunks in the same order as that earlier one; and
\* no retrieve, returning or raising, changes the stored chunks or vectors.
C13_RepeatableRetrieve ==
    /\ []((/\ Returned("retrieve")
           /\ prev.op = "retrieve"
           /\ ret.query = prev.query
           /\ ret.k = prev.k)
              => ret.value = prev.value /\ ret.top = prev.top)
    /\ [][(Idle /\ ret'.op = "retrieve")
              => chunks' = chunks /\ embeddings' = embeddings]_vars

\* the same query and k returned the same two or more chunks a second time,
\* two of them scoring the same
C13_Witness ==
    /\ Returned("retrieve")
    /\ prev.op = "retrieve"
    /\ ret.query = prev.query
    /\ ret.k = prev.k
    /\ Built
    /\ Len(ret.value) >= 2
    /\ ret.value = prev.value
    /\ \E i, j \in Range(ret.top) :
           i # j /\ ScoreEq(RetSims[i], RetSims[j])

\* C14: among the chunks retrieve returns from a built corpus for a k of 1 or
\* more, two with the same score come in corpus order: the one stored at the
\* earlier position is returned first.
C14_StableDescending ==
    (Returned("retrieve") /\ Built /\ ret.k >= 1) =>
        LET sims == RetSims
        IN \A i, j \in 1..Len(ret.top) :
               (i < j /\ ScoreEq(sims[ret.top[i]], sims[ret.top[j]]))
                   => ret.top[i] < ret.top[j]

\* the chunks the step appends for a paragraph of more than 500 characters
\* that is not shorter than min_chunk_size
LongStep ==
    /\ LoopStep
    /\ Len(paragraphs[pidx + 1]) >= min_chunk_size
    /\ Len(paragraphs[pidx + 1]) > LongParagraph

Standalone(p) ==
    /\ Len(paragraphs[p]) < min_chunk_size
    /\ \/ Before(p) = <<>>
       \/ Len(Before(p)[Len(Before(p))]) >= MergeLimit

\* the step of the loop does with a paragraph shorter than min_chunk_size
\* what the rule says: added after a space to the last chunk when there is
\* one and it has fewer than 200 characters, appended as a chunk otherwise
ShortStepRule ==
    (LoopStep /\ Len(paragraphs[pidx + 1]) < min_chunk_size) =>
        LET n == Len(cchunks)
            para == paragraphs[pidx + 1]
        IN IF n >= 1 /\ Len(cchunks[n]) < MergeLimit
           THEN /\ Len(cchunks') = n
                /\ \A i \in 1..(n - 1) : cchunks'[i] = cchunks[i]
                /\ cchunks'[n] = cchunks[n] \o <<" ">> \o para
           ELSE cchunks' = cchunks \o <<para>>

\* the example: chunk_text of the notes with min_chunk_size 5 gives the one
\* chunk, and retrieve of the query with k = 1 on the index built from it
\* returns that chunk
ExampleHolds ==
    (cpc = "done" /\ text = ExampleNotes /\ min_chunk_size = 5) =>
        /\ cchunks = <<ExampleChunk>>
        /\ LET r == RetrieveCall(ExampleQuery, 1, StoredChunks(chunks, cchunks),
                                 StoredEmbeddings(embeddings, cchunks))
           IN r.outcome = "returned" /\ r.value = <<ExampleChunk>>

\* C16 as stated: a paragraph shorter than min_chunk_size is added to the
\* last chunk exactly when there is one of fewer than 200 characters;
\* otherwise it becomes a chunk of its own, and the filter at the end removes
\* that chunk; and the example holds.
C16_ShortParagraphRule ==
    /\ [][ShortStepRule]_vars
    /\ [][(cpc = "loop" /\ cpc' = "done") =>
              \A p \in 1..Len(paragraphs) :
                  Standalone(p) =>
                      \A i \in 1..Len(cchunks') :
                          cchunks'[i] # cchunks[Len(Before(p)) + 1]]_vars
    /\ []ExampleHolds

\* C16 amended: as stated, but the filter at the end removes the chunk of a
\* paragraph emitted standalone only if it still has fewer than
\* min_chunk_size characters: it is kept when short paragraphs added to it
\* later have brought it to min_chunk_size or more.
C16_ShortParagraphRuleAmended ==
    /\ [][ShortStepRule]_vars
    /\ [][(cpc = "loop" /\ cpc' = "done") =>
              \A p \in 1..Len(paragraphs) :
                  Standalone(p) =>
                      LET c == cchunks[Len(Before(p)) + 1]
                      IN (\E i \in 1..Len(cchunks') : cchunks'[i] = c)
                             <=> (/\ Len(c) >= min_chunk_size
                                  /\ Len(c) > Len(paragraphs[p]))]_vars
    /\ []ExampleHolds

\* chunk_text has returned a chunk that began as a paragraph shorter than
\* min_chunk_size emitted standalone
C16_Witness ==
    /\ cpc = "done"
    /\ min_chunk_size > 0
    /\ \E p \in 1..Len(paragraphs) :
           /\ Standalone(p)
           /\ \E i \in 1..Len(cchunks) :
                  cchunks[i] = Before(Len(paragraphs) + 1)[Len(Before(p)) + 1]

\* C17: get_stats called on an index that holds no chunk and no vector
\* (never built, or built from the empty list) returns, and reports 0 chunks
\* and the embedding dimension 0.
C17_StatsOnEmptyIndex ==
    (/\ ret.op = "get_stats"
     /\ chunks = <<>>
     /\ (embeddings.none \/ embeddings.rows = <<>>))
        => /\ ret.outcome = "returned"
           /\ ret.num_chunks = 0
           /\ ret.embedding_dim = 0

\* C18: when build_index raises on an index that was built before, the index
\* is aligned afterwards: it holds as many vectors as chunks, and the vectors
\* are those of the chunks.
C18_AlignedAfterFailedBuild ==
    (/\ ret.op = "build_index"
     /\ ret.outcome = "raised"
     /\ ~embeddings.none)
        => /\ Len(embeddings.rows) = Len(chunks)
           /\ embeddings.rows = EncodeMany(chunks)

====
